---- MODULE Spec2Model ----
(***************************************************************************)
(* Model of NitroFrontifyDeployer (src/index.js): component validation,    *)
(* transfer-data generation, the build of pattern.json and example HTML    *)
(* into targetDir, the sync to the registry, and clean().                  *)
(*                                                                         *)
(* Paths are sequences of segments, a segment is the sequence of the       *)
(* dot-separated parts of a file or folder name: "_example/example.hbs"    *)
(* is << <<"_example">>, <<"example", "hbs">> >>.                          *)
(***************************************************************************)
EXTENDS Integers, Sequences, FiniteSets, TLC

VARIABLES
    config,       \* the configuration object the deployer was constructed with
    env,          \* process.env.FRONTIFY_ACCESS_TOKEN: at construction and now
    options,      \* this.options of the deployer (set by the constructor)
    catalog,      \* what nitroComponentResolver.getComponents() answers now
    call,         \* the API call in progress or settled last, with its promises
    tasks,        \* the _buildComponent promises of the last build, by position
    fs,           \* the targetDir tree: directories and files with content
    validatorLog, \* components handed to patternValidator.validateComponent by the call
    registryLog,  \* calls made on frontifyApi by the call
    written,      \* paths under targetDir written by the component builds of the call
    changes,      \* number of times the component tree changed on disk
    invocations   \* number of API calls made so far

vars == <<config, env, options, catalog, call, tasks, fs, validatorLog, registryLog, written, changes, invocations>>

----------------------------------------------------------------------------
(* Bounds *)

MaxCatalog == 2          \* components in one answer of getComponents()
MaxCatalogChanges == 1   \* changes of the component tree during a run
MaxCalls == 3            \* API calls of the caller during a run

----------------------------------------------------------------------------
(* JavaScript values *)

Undefined == [undef |-> TRUE]
Str(s) == [str |-> s]
Obj(o) == [obj |-> o]
Null == [null |-> TRUE]
Fn(name) == [fn |-> name]
Truthy(v) == v # Undefined /\ v # Null /\ v # Str("")
\* typeof v
typeof(v) ==
    CASE v = Undefined -> "undefined"
      [] DOMAIN v = {"str"} -> "string"
      [] DOMAIN v = {"fn"} -> "function"
      [] OTHER -> "object"

----------------------------------------------------------------------------
(* path module *)

RECURSIVE JoinWith(_, _)
JoinWith(parts, sep) ==
    IF Len(parts) = 0 THEN ""
    ELSE IF Len(parts) = 1 THEN parts[1]
    ELSE parts[1] \o sep \o JoinWith(Tail(parts), sep)

SegStr(seg) == JoinWith(seg, ".")
PathStr(p) == "/" \o JoinWith([i \in 1..Len(p) |-> SegStr(p[i])], "/")

dirname(p) == SubSeq(p, 1, Len(p) - 1)
basename(p) == p[Len(p)]
IsPrefix(a, b) == Len(a) <= Len(b) /\ SubSeq(b, 1, Len(a)) = a
\* path.relative(from, to) for a `to` below `from`, the only use in index.js
relative(from, to) == SubSeq(to, Len(from) + 1, Len(to))
\* path.resolve / path.join of a directory and a relative path
resolve(dir, rel) == dir \o rel

RootDirectory == << <<"components">> >>
TargetDir == << <<"tmp">> >>
PatternJson == <<"pattern", "json">>

----------------------------------------------------------------------------
(* The component tree the catalog reads (nitro-component-resolver)         *)

AllowedStability == {"stable", "unstable", "beta"}

Example(dir, relPath, main, hidden, content) ==
    [filepath |-> resolve(dir, relPath), main |-> main, hidden |-> hidden, content |-> content]

Component(folder, name, data, exampleSpecs) ==
    LET dir == resolve(RootDirectory, << <<folder>>, <<name>> >>) IN
    [ directory |-> dir,
      metaFile |-> resolve(dir, <<PatternJson>>),
      data |-> data,
      examples |-> [i \in 1..Len(exampleSpecs) |->
                       Example(dir, exampleSpecs[i][1], exampleSpecs[i][2], exampleSpecs[i][3],
                               exampleSpecs[i][4])] ]

Ex(file) == << <<"_example">>, <<file, "hbs">> >>
\* an example file with a dot in its name: <file>.<part>.hbs
ExDotted(file, part) == << <<"_example">>, <<file, part, "hbs">> >>

Button ==
    Component("atoms", "button", [stability |-> Str("stable")],
              << <<Ex("example"), TRUE, FALSE, "hello world">> >>)
Radio ==
    Component("atoms", "radio", [stability |-> Str("unstable")],
              << <<Ex("desktop"), TRUE, FALSE, "<div><span>fancy radio</span></div>">>,
                 <<Ex("mobile"), TRUE, FALSE, "hello world">> >>)
Card ==
    Component("atoms", "card", [stability |-> Str("beta")],
              << <<Ex("broken"), TRUE, FALSE, "{{#each">> >>)
Grid ==
    Component("helpers", "grid", [stability |-> Str("stable")],
              << <<Ex("torn"), TRUE, FALSE, "{{/if}}">> >>)
Label ==
    Component("atoms", "label", [stability |-> Str("bogus")],
              << <<Ex("example"), TRUE, FALSE, "hello world">> >>)
Junk ==
    Component("helpers", "junk", [stability |-> Str("bogus")],
              << <<Ex("example"), TRUE, FALSE, "hello world">> >>)
Hero ==
    Component("helpers", "hero",
              [name |-> Str("Hero Unit"), type |-> Str("molecule"), id |-> Str("7"),
               author |-> Str("somebody")],
              << <<Ex("example"), TRUE, FALSE, "hello world">>,
                 <<Ex("draft"), FALSE, FALSE, "hello world">>,
                 <<Ex("secret"), FALSE, TRUE, "hello world">>,
                 <<Ex("pinned"), TRUE, TRUE, "<div><span>fancy radio</span></div>">> >>)

Tabs ==
    Component("atoms", "tabs", [stability |-> Str("stable")],
              << <<ExDotted("tabs", "wide"), TRUE, FALSE, "<div><span>fancy radio</span></div>">>,
                 <<ExDotted("tabs", "narrow"), TRUE, FALSE, "hello world">> >>)

\* an example file in a folder below _example
ExSub(file) == << <<"_example">>, <<"sub">>, <<file, "hbs">> >>
Panel ==
    Component("atoms", "panel", [stability |-> Str("stable")],
              << <<Ex("panel"), TRUE, FALSE, "<div><span>fancy radio</span></div>">>,
                 <<ExSub("panel"), TRUE, FALSE, "hello world">> >>)

AllComponents == {Button, Radio, Card, Grid, Label, Junk, Hero}

RECURSIVE SeqsOver(_, _)
SeqsOver(S, n) ==
    IF n = 0 THEN {<<>>}
    ELSE LET shorter == SeqsOver(S, n - 1) IN
         shorter \cup {Append(s, c) : s \in {t \in shorter : Len(t) = n - 1}, c \in S}

Range(s) == {s[i] : i \in 1..Len(s)}
\* getComponents() answers a mapping id -> Component: no component twice
CatalogsOver(S) == {s \in SeqsOver(S, MaxCatalog) : Cardinality(Range(s)) = Len(s)}

----------------------------------------------------------------------------
(* Promises and errors *)

NoPromise == [st |-> "none", val |-> Undefined]
Pending == [st |-> "pending", val |-> Undefined]
Resolved(v) == [st |-> "resolved", val |-> v]
Rejected(e) == [st |-> "rejected", val |-> [error |-> e]]
Settled(p) == p.st \in {"resolved", "rejected"}

Error(message) == [name |-> "Error", message |-> message]
TypeError(message) == [name |-> "TypeError", message |-> message]
AssertionError(message) == [name |-> "AssertionError", message |-> message]

Bool(b) == [bool |-> b]
List(l) == [list |-> l]

----------------------------------------------------------------------------
(* Component Validator *)

NoComponentsMessage == "Component validation failed - no components found"

\* patternValidator.validateComponent(component) of nitro-component-validator,
\* which throws for metadata that violates the schema
SchemaErrors(data) ==
    IF "stability" \in DOMAIN data /\ data["stability"] \notin {Str(s) : s \in AllowedStability}
    THEN <<"data.stability should be equal to one of the allowed values">>
    ELSE <<>>

validateComponent(component) ==
    LET errors == SchemaErrors(component.data) IN
    IF errors # <<>>
    THEN [throw |-> Error("Schema \"nitro-frontify-deployer-input-schema\" can't be applied for \""
                          \o PathStr(component.metaFile) \o "\" because " \o errors[1])]
    ELSE [ret |-> TRUE]

Lookup(object, key) == IF key \in DOMAIN object THEN object[key] ELSE Undefined

\* the folder of the component itself taken for its type folder
typeFolderName_componentFolder(component) == SegStr(basename(dirname(component.metaFile)))

typeFolderName(component) == SegStr(basename(dirname(dirname(component.metaFile))))

\* the mapping check left out
_validateComponent_schemaOnly(component) == validateComponent(component)

\* the mapping check made before the schema validation
_validateComponent_mappingFirst(component) ==
    IF ~Truthy(Lookup(options.mapping, typeFolderName(component)))
    THEN [throw |-> Error("Folder name \"" \o typeFolderName(component) \o "\" is not in the mapping.")]
    ELSE validateComponent(component)

\* this.options.mapping[folder] throws when the mapping is null
NullMappingMessage(folder) == "Cannot read property '" \o folder \o "' of null"

_validateComponent(component) ==
    LET schemaCheck == validateComponent(component) IN
    IF "throw" \in DOMAIN schemaCheck THEN schemaCheck
    ELSE IF options.mapping = Null
    THEN [throw |-> TypeError(NullMappingMessage(typeFolderName(component)))]
    ELSE IF ~Truthy(Lookup(options.mapping, typeFolderName(component)))
    THEN [throw |-> Error("Folder name \"" \o typeFolderName(component) \o "\" is not in the mapping.")]
    ELSE [ret |-> TRUE]

\* _.values(components).some((component) => !this._validateComponent(component)):
\* the components validated one after the other, up to the first throw or
\* the first component for which the callback answers true
RECURSIVE SomeNotValid(_, _)
SomeNotValid(components, log) ==
    IF components = <<>> THEN [ret |-> FALSE, log |-> log]
    ELSE LET r == _validateComponent(Head(components))
             seen == Append(log, Head(components)) IN
         IF "throw" \in DOMAIN r THEN [throw |-> r.throw, log |-> seen]
         ELSE IF ~r.ret THEN [ret |-> TRUE, log |-> seen]
         ELSE SomeNotValid(Tail(components), seen)

\* the check for an empty catalog left out
validateComponents_noEmptyCheck(components) ==
    LET some == SomeNotValid(components, <<>>) IN
    IF "throw" \in DOMAIN some
    THEN [promise |-> Rejected(some.throw), log |-> some.log]
    ELSE [promise |-> Resolved(Bool(~some.ret)), log |-> some.log]

\* every component validated, also after one has failed
validateComponents_continuing(components) ==
    LET failing == {i \in 1..Len(components) : "throw" \in DOMAIN _validateComponent(components[i])}
        first == CHOOSE i \in failing : \A j \in failing : i <= j IN
    IF Len(components) = 0
    THEN [promise |-> Rejected(Error(NoComponentsMessage)), log |-> <<>>]
    ELSE IF failing # {}
    THEN [promise |-> Rejected(_validateComponent(components[first]).throw), log |-> components]
    ELSE [promise |-> Resolved(Bool(TRUE)), log |-> components]

\* the callback of getComponents() in validateComponents()
validateComponents(components) ==
    IF Len(components) = 0
    THEN [promise |-> Rejected(Error(NoComponentsMessage)), log |-> <<>>]
    ELSE LET some == SomeNotValid(components, <<>>) IN
         IF "throw" \in DOMAIN some
         THEN [promise |-> Rejected(some.throw), log |-> some.log]
         ELSE [promise |-> Resolved(Bool(~some.ret)), log |-> some.log]

----------------------------------------------------------------------------
(* Constructor *)

DefaultAssetFilter == << "**/*.*" >>
EmptyObject == [k \in {} |-> Undefined]

\* the directories for which fs.existsSync answers true
ExistingDirectories == {RootDirectory}
RootDirectoryMessage ==
    "Please specify your component rootDirectory folder e.g. { rootDirectory: \"/a/path\"}"
TargetDirMessage == "Please specify your component targetDir folder e.g. { targetDir: \"/a/path\"}"
MappingMessage ==
    "Please specifiy the foldername component type mapping e.g. { mapping: {\"atoms\": \"atom\" } }"
CompilerMessage == "Please specify a compiler function to compile the example templates"

\* the assertions the constructor starts with
assertConfig(given) ==
    IF ~("rootDirectory" \in DOMAIN given /\ given.rootDirectory \in ExistingDirectories)
    THEN [throw |-> AssertionError(RootDirectoryMessage)]
    ELSE IF "targetDir" \notin DOMAIN given
    THEN [throw |-> AssertionError(TargetDirMessage)]
    ELSE IF typeof(Lookup(given, "mapping")) # "object"
    THEN [throw |-> AssertionError(MappingMessage)]
    ELSE IF typeof(Lookup(given, "compiler")) # "function"
    THEN [throw |-> AssertionError(CompilerMessage)]
    ELSE [ret |-> TRUE]

\* no deployer: the constructor threw
NoDeployer == Undefined

\* given: what the caller passes; token: process.env.FRONTIFY_ACCESS_TOKEN
constructor(given, token) ==
    LET declared == Lookup(given, "frontifyOptions")
        frontifyOptions == IF Truthy(declared) THEN declared.obj ELSE EmptyObject IN
    [ targetDir |-> given.targetDir,
      rootDirectory |-> given.rootDirectory,
      mapping |-> given.mapping,
      compiler |-> given.compiler,
      assetFolder |-> IF Truthy(Lookup(given, "assetFolder")) THEN given.assetFolder ELSE Str(""),
      assetFilter |-> IF "assetFilter" \in DOMAIN given THEN given.assetFilter ELSE DefaultAssetFilter,
      componentNameProcessor |->
          IF "componentNameProcessor" \in DOMAIN given THEN given.componentNameProcessor ELSE "identity",
      frontifyOptions |->
          IF ~Truthy(Lookup(frontifyOptions, "access_token")) /\ Truthy(token)
          THEN [k \in DOMAIN frontifyOptions \cup {"access_token"} |->
                    IF k = "access_token" THEN token ELSE frontifyOptions[k]]
          ELSE frontifyOptions ]

----------------------------------------------------------------------------
(* Transfer Data Generator *)

\* Object.keys(schema.properties) of schema.json
SchemaProperties == {"name", "type", "stability", "id"}

\* name.replace(/\..+$/, ''): cuts at the first dot that has text after it
StripExtension(seg) ==
    IF Len(seg) >= 2 /\ JoinWith(Tail(seg), ".") # "" THEN seg[1] ELSE SegStr(seg)

\* the configured name processor not applied
componentNameProcessor_ignored(name, componentName, componenType, componentPath) == name

\* this.options.componentNameProcessor(name, componentName, componenType, componentPath)
componentNameProcessor(name, componentName, componenType, componentPath) ==
    IF options.componentNameProcessor = "identity" THEN name
    ELSE Str(name.str \o " - " \o componentName \o " - " \o componenType
             \o " - " \o PathStr(componentPath))

_generateVariation(componentName, componentPath, example) ==
    LET name == StripExtension(basename(example.filepath))
        examplePath == resolve(relative(options.rootDirectory, componentPath), << <<name, "html">> >>) IN
    [ name |-> componentName.str \o " -- " \o name,
      assets |-> [html |-> <<examplePath>>] ]

\* the value of resultJson.variations after the forEach over the filtered examples
RECURSIVE Variations(_, _, _, _)
Variations(component, resolvedName, examples, acc) ==
    IF examples = <<>> THEN acc
    ELSE LET example == Head(examples)
             exampleName == relative(component.directory, example.filepath)
             variation == _generateVariation(resolvedName, dirname(component.metaFile), example) IN
         Variations(component, resolvedName, Tail(examples),
                    [k \in DOMAIN acc \cup {exampleName} |->
                        IF k = exampleName THEN variation ELSE acc[k]])

\* the examples filtered by their hidden flag, as in the former version
_generateComponentTransferData_notHidden(component, examples) ==
    LET sourceJson == component.data
        copied == [property \in SchemaProperties \cap DOMAIN sourceJson |-> sourceJson[property]]
        componentPath == dirname(component.metaFile)
        componentName == SegStr(basename(componentPath))
        componenType == SegStr(basename(dirname(componentPath)))
        defaultName == IF ~Truthy(Lookup(copied, "name")) THEN Str(componentName) ELSE copied["name"]
        name == componentNameProcessor(defaultName, componentName, componenType, componentPath)
        type == IF ~Truthy(Lookup(copied, "type"))
                THEN Lookup(options.mapping, componenType) ELSE copied["type"]
        shown == SelectSeq(examples, LAMBDA example : ~example.hidden)
        variations == Variations(component, name, shown, EmptyObject) IN
    [property \in DOMAIN copied \cup {"name", "type", "variations"} |->
        CASE property = "name" -> name
          [] property = "type" -> type
          [] property = "variations" -> Obj(variations)
          [] OTHER -> copied[property]]

\* the synchronous part of _generateComponentTransferData throws: the type
\* is looked up in a mapping that is null
TypeLookupThrows(component) ==
    /\ options.mapping = Null
    /\ ~Truthy(Lookup(component.data, "type"))

\* examples: the answer of getComponentExamples(component.directory)
_generateComponentTransferData(component, examples) ==
    LET sourceJson == component.data
        copied == [property \in SchemaProperties \cap DOMAIN sourceJson |-> sourceJson[property]]
        componentPath == dirname(component.metaFile)
        componentName == SegStr(basename(componentPath))
        componenType == SegStr(basename(dirname(componentPath)))
        defaultName == IF ~Truthy(Lookup(copied, "name")) THEN Str(componentName) ELSE copied["name"]
        name == componentNameProcessor(defaultName, componentName, componenType, componentPath)
        type == IF ~Truthy(Lookup(copied, "type"))
                THEN Lookup(options.mapping, componenType) ELSE copied["type"]
        mainExamples == SelectSeq(examples, LAMBDA example : example.main)
        variations == Variations(component, name, mainExamples, EmptyObject) IN
    [property \in DOMAIN copied \cup {"name", "type", "variations"} |->
        CASE property = "name" -> name
          [] property = "type" -> type
          [] property = "variations" -> Obj(variations)
          [] OTHER -> copied[property]]

\* JSON.stringify(value, null, 2): the members of the object, a member whose
\* value is undefined being left out
JSONStringify(value) == {<<k, value[k]>> : k \in {key \in DOMAIN value : value[key] # Undefined}}
JSONParse(text) == [k \in {member[1] : member \in text} |-> (CHOOSE member \in text : member[1] = k)[2]]

----------------------------------------------------------------------------
(* Template compiler and pretty printer *)

\* the injected compiler: a template that does not parse makes it throw
MalformedTemplates == {"{{#each", "{{/if}}"}
toUpperCase(src) ==
    CASE src = "hello world" -> "HELLO WORLD"
      [] src = "<div><span>fancy radio</span></div>" -> "<DIV><SPAN>FANCY RADIO</SPAN></DIV>"
      [] OTHER -> src
compiler(src, path) ==
    IF src \in MalformedTemplates THEN [throw |-> Error("Compile error")]
    ELSE [ret |-> toUpperCase(src)]

\* html.prettyPrint(compiled, { indent: 2, unformatted: [] })
prettyPrint(markup) ==
    IF markup = "<DIV><SPAN>FANCY RADIO</SPAN></DIV>"
    THEN "<DIV>\n    <SPAN>FANCY RADIO</SPAN>\n</DIV>" ELSE markup

\* the error of the compiler caught and dropped
compileTemplate_swallow(src, templateSrc) ==
    LET compiled == compiler(src, templateSrc) IN
    IF "throw" \in DOMAIN compiled THEN [ret |-> ""] ELSE [ret |-> prettyPrint(compiled.ret)]

\* the synchronous part of the readFile callback in _compileExample
compileTemplate(src, templateSrc) ==
    LET compiled == compiler(src, templateSrc) IN
    IF "throw" \in DOMAIN compiled
    THEN [throw |-> [compiled.throw EXCEPT
                        !.message = "\"" \o PathStr(templateSrc) \o "\" " \o compiled.throw.message]]
    ELSE [ret |-> prettyPrint(compiled.ret)]

----------------------------------------------------------------------------
(* File system below targetDir *)

EmptyFiles == [p \in {} |-> Undefined]
EmptyFs == [dirs |-> {}, files |-> EmptyFiles]

mkdirp(tree, dir) ==
    [tree EXCEPT !.dirs = @ \cup {SubSeq(dir, 1, k) : k \in Len(TargetDir)..Len(dir)}]

CanWrite(tree, file) == dirname(file) \in tree.dirs
fsWriteFile(tree, file, content) ==
    [tree EXCEPT !.files = [p \in DOMAIN @ \cup {file} |-> IF p = file THEN content ELSE @[p]]]
ENOENT(file) == Error("ENOENT: no such file or directory, open '" \o PathStr(file) \o "'")

\* rimraf(dir): removes the tree, an absent tree is no error
rimraf(tree, dir) ==
    [dirs |-> {d \in tree.dirs : ~IsPrefix(dir, d)},
     files |-> [p \in {f \in DOMAIN tree.files : ~IsPrefix(dir, f)} |-> tree.files[p]]]

\* the directory removed with rmdir, which fails when it is absent
clean_rmdir(tree) ==
    IF options.targetDir \in tree.dirs
    THEN [fs |-> rimraf(tree, options.targetDir), promise |-> Resolved(Undefined)]
    ELSE [fs |-> tree, promise |-> Rejected(ENOENT(options.targetDir))]

\* clean(): the file system and the promise once rimraf has finished
clean(tree) == [fs |-> rimraf(tree, options.targetDir), promise |-> Resolved(Undefined)]

Star == <<"*">>
GlobMatches(rel, pattern) ==
    /\ Len(rel) = Len(pattern)
    /\ \A i \in 1..Len(pattern) : pattern[i] = Star \/ pattern[i] = rel[i]
\* the files below cwd that one of the glob patterns matches
Glob(tree, cwd, patterns) ==
    {f \in DOMAIN tree.files :
        IsPrefix(cwd, f) /\ \E i \in 1..Len(patterns) : GlobMatches(relative(cwd, f), patterns[i])}

----------------------------------------------------------------------------
(* Registry sync *)

TokenMessage == "Please specify a frontify token"
\* the glob one folder level short
PatternGlobs_oneLevel == << <<Star, PatternJson>> >>
PatternGlobs == << <<Star, Star, PatternJson>> >>

\* the token read from the environment as the registry is called
extend_envNow(cwd, frontifyOptions) ==
    [k \in {"cwd", "access_token"} \cup DOMAIN frontifyOptions |->
        IF k = "access_token" THEN env.now
        ELSE IF k \in DOMAIN frontifyOptions THEN frontifyOptions[k] ELSE cwd]

\* _.extend({ cwd: cwd }, this.options.frontifyOptions)
extend(cwd, frontifyOptions) ==
    [k \in {"cwd"} \cup DOMAIN frontifyOptions |->
        IF k \in DOMAIN frontifyOptions THEN frontifyOptions[k] ELSE cwd]

\* the short cut for an unset asset folder left out
_syncAssets_noShortCut ==
    IF ~Truthy(Lookup(options.frontifyOptions, "access_token"))
    THEN [throw |-> AssertionError(TokenMessage)]
    ELSE [promise |-> Pending,
          calls |-> << [fn |-> "syncAssets",
                        config |-> extend(options.assetFolder, options.frontifyOptions),
                        patterns |-> options.assetFilter] >>]

_syncAssets ==
    IF ~Truthy(Lookup(options.frontifyOptions, "access_token"))
    THEN [throw |-> AssertionError(TokenMessage)]
    ELSE IF options.assetFolder = Str("")
    THEN [promise |-> Resolved(List(<<>>)), calls |-> <<>>]
    ELSE [promise |-> Pending,
          calls |-> << [fn |-> "syncAssets",
                        config |-> extend(options.assetFolder, options.frontifyOptions),
                        patterns |-> options.assetFilter] >>]

_syncComponents ==
    IF ~Truthy(Lookup(options.frontifyOptions, "access_token"))
    THEN [throw |-> AssertionError(TokenMessage)]
    ELSE [promise |-> Pending,
          calls |-> << [fn |-> "syncPatterns",
                        config |-> extend(Str(PathStr(options.targetDir)), options.frontifyOptions),
                        patterns |-> PatternGlobs] >>]

\* what the registry answers for the assets it synced
SyncedAssets == <<"app.css", "app.js">>

RECURSIVE SetToSeq(_)
SetToSeq(S) == IF S = {} THEN <<>> ELSE LET x == CHOOSE y \in S : TRUE IN <<x>> \o SetToSeq(S \ {x})

----------------------------------------------------------------------------
(* deploy(): the promise chain *)

NewCall(op) ==
    [ op |-> op, result |-> Pending, validate |-> NoPromise, build |-> NoPromise,
      answer |-> <<>>, spawned |-> FALSE, components |-> <<>>, assets |-> NoPromise, patterns |-> NoPromise,
      quiet |-> TRUE, absent |-> FALSE, before |-> {} ]

\* the build stage following a validation that rejected as well
deploy_thenBuild_always(p) == TRUE

\* .then(() => this.buildComponents()): does the build stage follow a
\* validation that settled as p
deploy_thenBuild(p) == p.st = "resolved"
\* .then(() => Promise.all([this._syncAssets(), this._syncComponents()]))
deploy_thenSync(p) == p.st = "resolved"

\* the two syncs raced: the first that resolves makes the result
deploy_join_race(c, last) ==
    IF c.result.st # "pending" THEN c
    ELSE IF last.st = "rejected" THEN [c EXCEPT !.result = last]
    ELSE [c EXCEPT !.result = Resolved([assets |-> c.assets.val, components |-> c.patterns.val])]

\* Promise.all([assets, patterns]).then(...) once one of the two has settled
deploy_join(c, last) ==
    IF c.result.st # "pending" THEN c
    ELSE IF last.st = "rejected" THEN [c EXCEPT !.result = last]
    ELSE IF c.assets.st = "resolved" /\ c.patterns.st = "resolved"
    THEN [c EXCEPT !.result = Resolved([assets |-> c.assets.val, components |-> c.patterns.val])]
    ELSE c

\* the sync stage left out with an empty result when there is no token
SyncStage_skipped(c) ==
    IF ~Truthy(Lookup(options.frontifyOptions, "access_token"))
    THEN [call |-> [c EXCEPT !.result = Resolved([assets |-> List(<<>>), components |-> List(<<>>)])],
          calls |-> <<>>]
    ELSE [call |-> [c EXCEPT !.assets = _syncAssets.promise, !.patterns = _syncComponents.promise],
          calls |-> _syncAssets.calls \o _syncComponents.calls]

\* the sync stage of deploy() starts
SyncStage(c) ==
    LET assets == _syncAssets IN
    IF "throw" \in DOMAIN assets
    THEN [call |-> [c EXCEPT !.result = Rejected(assets.throw)], calls |-> <<>>]
    ELSE LET patterns == _syncComponents IN
         IF "throw" \in DOMAIN patterns
         THEN [call |-> [c EXCEPT !.result = Rejected(patterns.throw)], calls |-> assets.calls]
         ELSE [call |-> [c EXCEPT !.assets = assets.promise, !.patterns = patterns.promise],
               calls |-> assets.calls \o patterns.calls]

\* validateComponents() of the call has settled as p
AfterValidate(c, p) ==
    LET settled == [c EXCEPT !.validate = p] IN
    IF c.op = "validateComponents" THEN [settled EXCEPT !.result = p]
    ELSE IF deploy_thenBuild(p) THEN [settled EXCEPT !.build = Pending]
    ELSE [settled EXCEPT !.result = p]

\* buildComponents() of the call has settled as p
AfterBuild(c, p) ==
    LET settled == [c EXCEPT !.build = p] IN
    IF c.op = "buildComponents" THEN [call |-> [settled EXCEPT !.result = p], calls |-> <<>>]
    ELSE IF deploy_thenSync(p) THEN SyncStage(settled)
    ELSE [call |-> [settled EXCEPT !.result = p], calls |-> <<>>]

----------------------------------------------------------------------------
(* Component builds *)

VariationSrc(task, key) == resolve(task.component.directory, key)
VariationDest(task, key) ==
    resolve(options.targetDir, task.transferData["variations"].obj[key].assets.html[1])
VariationContent(task, key) ==
    LET matching == SelectSeq(task.component.examples,
                              LAMBDA example : example.filepath = VariationSrc(task, key)) IN
    matching[1].content
\* every component built into the folder of a core assets package
ComponentTargetDir_core(task) == resolve(options.targetDir, << <<"core">>, <<"assets">> >>)

ComponentTargetDir(task) ==
    resolve(options.targetDir, relative(options.rootDirectory, task.component.directory))

\* _buildComponent(component) is called: getComponentExamples is pending
NewTask(component) ==
    [ component |-> component, pc |-> "examples", promise |-> Pending,
      transferData |-> EmptyObject, variations |-> EmptyObject ]

VariationLive(v) == v \in {"mkdirp", "read", "write"}
Live(task) ==
    \/ task.pc \in {"examples", "mkdirp", "writeJson"}
    \/ task.pc = "variations" /\ \E k \in DOMAIN task.variations : VariationLive(task.variations[k])
Quiescent == \A i \in DOMAIN tasks : ~Live(tasks[i])

\* Promise.all over the variations of one component
TaskJoin(task) ==
    IF task.promise.st # "pending" THEN task
    ELSE IF \A k \in DOMAIN task.variations : task.variations[k] = "done"
    THEN [task EXCEPT !.promise = Resolved(Undefined)]
    ELSE task

\* a later rejection of a component build replacing the first
buildComponents_join_last(newTasks, i) ==
    IF ~call.spawned THEN [call |-> call, calls |-> <<>>]
    ELSE IF newTasks[i].promise.st = "rejected" /\ tasks[i].promise.st = "pending"
    THEN AfterBuild(call, newTasks[i].promise)
    ELSE IF call.build.st # "pending" THEN [call |-> call, calls |-> <<>>]
    ELSE IF \A j \in DOMAIN newTasks : newTasks[j].promise.st = "resolved"
    THEN AfterBuild(call, Resolved(Undefined))
    ELSE [call |-> call, calls |-> <<>>]

\* the component builds raced: the first that settles decides
buildComponents_join_race(newTasks, i) ==
    IF ~call.spawned \/ call.build.st # "pending" THEN [call |-> call, calls |-> <<>>]
    ELSE IF newTasks[i].promise.st = "rejected" THEN AfterBuild(call, newTasks[i].promise)
    ELSE IF newTasks[i].promise.st = "resolved" THEN AfterBuild(call, Resolved(Undefined))
    ELSE [call |-> call, calls |-> <<>>]

\* buildComponents(): Promise.all over the component builds, after the
\* build of component i moved from tasks[i] to task
buildComponents_join(newTasks, i) ==
    IF ~call.spawned \/ call.build.st # "pending" THEN [call |-> call, calls |-> <<>>]
    ELSE IF newTasks[i].promise.st = "rejected" THEN AfterBuild(call, newTasks[i].promise)
    ELSE IF \A j \in DOMAIN newTasks : newTasks[j].promise.st = "resolved"
    THEN AfterBuild(call, Resolved(Undefined))
    ELSE [call |-> call, calls |-> <<>>]

----------------------------------------------------------------------------
(* The caller: one API call at a time, the next one once the last settled *)

Idle == call.result.st # "pending"
PatternFiles(tree) == Glob(tree, options.targetDir, PatternGlobs)

Constructed == options # NoDeployer

Start(op) ==
    /\ Constructed
    /\ invocations < MaxCalls
    /\ invocations' = invocations + 1
    /\ call' = [NewCall(op) EXCEPT
                   !.validate = IF op \in {"validateComponents", "deploy"} THEN Pending ELSE NoPromise,
                   !.build = IF op = "buildComponents" THEN Pending ELSE NoPromise,
                   !.quiet = IF op = "clean" THEN Quiescent ELSE TRUE,
                   !.absent = IF op = "clean" THEN options.targetDir \notin fs.dirs ELSE FALSE,
                   !.before = IF op \in {"deploy", "clean"} THEN PatternFiles(fs) ELSE {}]
    /\ validatorLog' = <<>>
    /\ registryLog' = <<>>
    /\ written' = {}

CallValidateComponents ==
    /\ Idle
    /\ Start("validateComponents")
    /\ UNCHANGED <<config, env, options, catalog, tasks, fs, changes>>

CallDeploy ==
    /\ Idle /\ Quiescent
    /\ Start("deploy")
    /\ tasks' = <<>>
    /\ UNCHANGED <<config, env, options, catalog, fs, changes>>

CallBuildComponents ==
    /\ Idle /\ Quiescent
    /\ Start("buildComponents")
    /\ tasks' = <<>>
    /\ UNCHANGED <<config, env, options, catalog, fs, changes>>

CallClean ==
    /\ Idle
    /\ Start("clean")
    /\ UNCHANGED <<config, env, options, catalog, tasks, fs, changes>>

\* the component tree changes on disk: the catalog answers differently from now on
TreeChange(catalogs) ==
    /\ changes < MaxCatalogChanges
    /\ changes' = changes + 1
    /\ catalog' \in catalogs \ {catalog}
    /\ UNCHANGED <<config, env, options, call, tasks, fs, validatorLog, registryLog, written, invocations>>

\* the environment variable FRONTIFY_ACCESS_TOKEN is set or unset by the caller
EnvChange(envs) ==
    /\ env' \in {[env EXCEPT !.now = token] : token \in envs \ {env.now}}
    /\ UNCHANGED <<config, options, catalog, call, tasks, fs, validatorLog, registryLog, written,
                   changes, invocations>>

----------------------------------------------------------------------------
(* Callbacks *)

\* getComponents() of validateComponents() resolves
GetComponentsForValidate ==
    /\ call.validate.st = "pending"
    /\ LET outcome == validateComponents(catalog) IN
        /\ call' = AfterValidate([call EXCEPT !.answer = catalog], outcome.promise)
        /\ validatorLog' = outcome.log
    /\ UNCHANGED <<config, env, options, catalog, tasks, fs, registryLog, written, changes, invocations>>

\* getComponents() of buildComponents() resolves: every component build starts
GetComponentsForBuild ==
    /\ call.build.st = "pending" /\ ~call.spawned
    /\ LET started == [call EXCEPT !.spawned = TRUE, !.components = catalog]
           \* _buildComponent is called for one component after the other,
           \* up to the first for which it throws
           throwing == {i \in 1..Len(catalog) : TypeLookupThrows(catalog[i])}
           first == CHOOSE i \in throwing : \A j \in throwing : i <= j
           issued == IF throwing = {} THEN Len(catalog) ELSE first - 1
           next == IF throwing # {}
                   THEN AfterBuild(started, Rejected(TypeError(NullMappingMessage(
                                                typeFolderName(catalog[first])))))
                   ELSE IF catalog = <<>> THEN AfterBuild(started, Resolved(Undefined))
                   ELSE [call |-> started, calls |-> <<>>] IN
        /\ tasks' = [i \in 1..issued |-> NewTask(catalog[i])]
        /\ call' = next.call
        /\ registryLog' = registryLog \o next.calls
    /\ UNCHANGED <<config, env, options, catalog, fs, validatorLog, written, changes, invocations>>

\* the build of component i moves to task, with the file system tree and
\* the files it wrote
TaskStep(i, task, tree, wrote) ==
    LET newTasks == [tasks EXCEPT ![i] = task]
        next == buildComponents_join(newTasks, i) IN
    /\ tasks' = newTasks
    /\ fs' = tree
    /\ call' = next.call
    /\ registryLog' = registryLog \o next.calls
    /\ written' = IF call.spawned THEN written \cup wrote ELSE written
    /\ UNCHANGED <<config, env, options, catalog, validatorLog, changes, invocations>>

\* the variations started together with the write of pattern.json
ExamplesResolved_parallel(i) ==
    /\ tasks[i].pc = "examples"
    /\ LET transferData == _generateComponentTransferData(
                               tasks[i].component, tasks[i].component.examples) IN
       TaskStep(i, [tasks[i] EXCEPT
                       !.pc = "mkdirp",
                       !.transferData = transferData,
                       !.variations = [k \in DOMAIN transferData["variations"].obj |-> "mkdirp"]],
                fs, {})

\* getComponentExamples() resolves in _generateComponentTransferData
ExamplesResolved(i) ==
    /\ tasks[i].pc = "examples"
    /\ TaskStep(i, [tasks[i] EXCEPT
                       !.pc = "mkdirp",
                       !.transferData = _generateComponentTransferData(
                                            tasks[i].component, tasks[i].component.examples)],
                fs, {})

\* mkdirp(componentTargetDir) finishes
MkdirpComponentDone(i) ==
    /\ tasks[i].pc = "mkdirp"
    /\ TaskStep(i, [tasks[i] EXCEPT !.pc = "writeJson"], mkdirp(fs, ComponentTargetDir(tasks[i])), {})

\* the metadata of the component written in place of its transfer data
_buildComponent_patternJson_sourceJson(task) ==
    [ file |-> resolve(ComponentTargetDir(task), <<PatternJson>>),
      content |-> [json |-> JSONStringify(task.component.data)] ]

\* what _buildComponent writes as pattern.json
_buildComponent_patternJson(task) ==
    [ file |-> resolve(ComponentTargetDir(task), <<PatternJson>>),
      content |-> [json |-> JSONStringify(task.transferData)] ]

\* fsWriteFile(patternJson, ...) finishes: the variations start
WritePatternJsonDone(i) ==
    /\ tasks[i].pc = "writeJson"
    /\ LET out == _buildComponent_patternJson(tasks[i]) IN
       IF CanWrite(fs, out.file)
       THEN TaskStep(i, TaskJoin([tasks[i] EXCEPT
                                     !.pc = "variations",
                                     !.variations = [k \in DOMAIN tasks[i].transferData["variations"].obj
                                                        |-> "mkdirp"]]),
                     fsWriteFile(fs, out.file, out.content), {out.file})
       ELSE TaskStep(i, [tasks[i] EXCEPT !.pc = "failed", !.promise = Rejected(ENOENT(out.file))],
                     fs, {})

\* mkdirp(path.dirname(templateDest)) finishes in _compileExample
MkdirpExampleDone(i, k) ==
    /\ tasks[i].pc = "variations" /\ tasks[i].variations[k] = "mkdirp"
    /\ TaskStep(i, [tasks[i] EXCEPT !.variations[k] = "read"],
                mkdirp(fs, dirname(VariationDest(tasks[i], k))), {})

\* a variation of the component failed with error e
VariationFailed(task, k, e) ==
    [task EXCEPT !.variations[k] = "failed",
                 !.promise = IF @.st = "pending" THEN Rejected(e) ELSE @]

\* fsReadFile(templateSrc) finishes: the template is compiled
ReadTemplateDone(i, k) ==
    /\ tasks[i].pc = "variations" /\ tasks[i].variations[k] = "read"
    /\ LET compiled == compileTemplate(VariationContent(tasks[i], k), VariationSrc(tasks[i], k)) IN
       IF "throw" \in DOMAIN compiled
       THEN TaskStep(i, VariationFailed(tasks[i], k, compiled.throw), fs, {})
       ELSE TaskStep(i, [tasks[i] EXCEPT !.variations[k] = "write"], fs, {})

\* fsWriteFile(templateDest, pretty) finishes
WriteHtmlDone(i, k) ==
    /\ tasks[i].pc = "variations" /\ tasks[i].variations[k] = "write"
    /\ LET dest == VariationDest(tasks[i], k)
           compiled == compileTemplate(VariationContent(tasks[i], k), VariationSrc(tasks[i], k)) IN
       IF CanWrite(fs, dest)
       THEN TaskStep(i, TaskJoin([tasks[i] EXCEPT !.variations[k] = "done"]),
                     fsWriteFile(fs, dest, [html |-> compiled.ret]), {dest})
       ELSE TaskStep(i, VariationFailed(tasks[i], k, ENOENT(dest)), fs, {})

\* frontifyApi.syncAssets settles
SyncAssetsDone(ok) ==
    /\ call.assets.st = "pending"
    /\ LET p == IF ok THEN Resolved(List(SyncedAssets)) ELSE Rejected(Error("syncAssets failed")) IN
       call' = deploy_join([call EXCEPT !.assets = p], p)
    /\ UNCHANGED <<config, env, options, catalog, tasks, fs, validatorLog, registryLog, written, changes, invocations>>

\* frontifyApi.syncPatterns settles: it synced the files its globs match
SyncPatternsDone(ok) ==
    /\ call.patterns.st = "pending"
    /\ LET request == registryLog[Len(registryLog)]
           p == IF ok THEN Resolved(List(SetToSeq(Glob(fs, options.targetDir, request.patterns))))
                ELSE Rejected(Error("syncPatterns failed")) IN
       call' = deploy_join([call EXCEPT !.patterns = p], p)
    /\ UNCHANGED <<config, env, options, catalog, tasks, fs, validatorLog, registryLog, written, changes, invocations>>

\* rimraf finishes
RimrafDone ==
    /\ call.op = "clean" /\ call.result.st = "pending"
    /\ LET done == clean(fs) IN
        /\ fs' = done.fs
        /\ call' = [call EXCEPT !.result = done.promise]
    /\ UNCHANGED <<config, env, options, catalog, tasks, validatorLog, registryLog, written, changes, invocations>>

----------------------------------------------------------------------------
(* Specifications *)

AtomsMapping == [atoms |-> Str("atom")]
Token == Str("3a8027e1809854d38d9703ba1af3ca77b2db7da7")

BaseConfig(mapping) ==
    [ rootDirectory |-> RootDirectory, targetDir |-> TargetDir,
      mapping |-> mapping, compiler |-> Fn("compilerMock") ]
With(object, key, value) ==
    [k \in DOMAIN object \cup {key} |-> IF k = key THEN value ELSE object[k]]

PipelineConfigs ==
    LET base == BaseConfig(AtomsMapping) IN
    { With(base, "frontifyOptions", Obj([access_token |-> Token])),
      With(With(With(base, "frontifyOptions", Obj([access_token |-> Token])),
                "assetFolder", Str("/fixtures")), "assetFilter", <<"**/*.js", "**/*.css">>),
      With(base, "assetFolder", Str("/fixtures")) }

\* the component trees of the pipeline runs
PipelineCatalogs ==
    { <<>>, <<Button>>, <<Button, Radio>>, <<Card, Button>>, <<Card, Grid>>, <<Grid, Button>> }

InitWith(configs, envs, catalogs) ==
    /\ \E given \in configs, token \in envs :
          LET asserted == assertConfig(given) IN
          /\ config = given
          /\ env = [constructed |-> token, now |-> token]
          /\ options = IF "throw" \in DOMAIN asserted THEN NoDeployer ELSE constructor(given, token)
          /\ call = IF "throw" \in DOMAIN asserted
                    THEN [NewCall("constructor") EXCEPT !.result = Rejected(asserted.throw)]
                    ELSE [NewCall("none") EXCEPT !.result = NoPromise]
    /\ catalog \in catalogs
    /\ tasks = <<>>
    /\ fs \in {EmptyFs, mkdirp(EmptyFs, TargetDir)}
    /\ validatorLog = <<>>
    /\ registryLog = <<>>
    /\ written = {}
    /\ changes = 0
    /\ invocations = 0

Init == InitWith(PipelineConfigs, {Undefined}, PipelineCatalogs)

Next ==
    \/ CallValidateComponents
    \/ CallBuildComponents
    \/ CallDeploy
    \/ CallClean
    \/ TreeChange(PipelineCatalogs)
    \/ GetComponentsForValidate
    \/ GetComponentsForBuild
    \/ \E i \in DOMAIN tasks : ExamplesResolved(i)
    \/ \E i \in DOMAIN tasks : MkdirpComponentDone(i)
    \/ \E i \in DOMAIN tasks : WritePatternJsonDone(i)
    \/ \E i \in DOMAIN tasks : \E k \in DOMAIN tasks[i].variations : MkdirpExampleDone(i, k)
    \/ \E i \in DOMAIN tasks : \E k \in DOMAIN tasks[i].variations : ReadTemplateDone(i, k)
    \/ \E i \in DOMAIN tasks : \E k \in DOMAIN tasks[i].variations : WriteHtmlDone(i, k)
    \/ \E ok \in BOOLEAN : SyncAssetsDone(ok)
    \/ \E ok \in BOOLEAN : SyncPatternsDone(ok)
    \/ RimrafDone

Spec == Init /\ [][Next]_vars

(* validateComponents() over every component tree of up to MaxCatalog components *)

HelpersMapping == [atoms |-> Str("atom"), helpers |-> Str("atom")]
ValidateConfigs == {BaseConfig(mapping) : mapping \in {EmptyObject, AtomsMapping, HelpersMapping}}
ValidateCatalogs == CatalogsOver(AllComponents)

InitValidate == InitWith(ValidateConfigs, {Undefined}, ValidateCatalogs)

NextValidate ==
    \/ CallValidateComponents
    \/ TreeChange(ValidateCatalogs)
    \/ GetComponentsForValidate

SpecValidate == InitValidate /\ [][NextValidate]_vars

(* the build of one component, for every component, without validation *)

BuildConfigs ==
    LET plain == {BaseConfig(mapping) : mapping \in {EmptyObject, AtomsMapping, HelpersMapping}} IN
    plain \cup {With(given, "componentNameProcessor", processor) :
                    given \in plain, processor \in {"identity", "describe"}}
BuildCatalogs == {<<component>> : component \in AllComponents \cup {Tabs, Panel}}

InitBuild == InitWith(BuildConfigs, {Undefined}, BuildCatalogs)

NextBuild ==
    \/ CallBuildComponents
    \/ CallClean
    \/ GetComponentsForBuild
    \/ \E i \in DOMAIN tasks : ExamplesResolved(i)
    \/ \E i \in DOMAIN tasks : MkdirpComponentDone(i)
    \/ \E i \in DOMAIN tasks : WritePatternJsonDone(i)
    \/ \E i \in DOMAIN tasks : \E k \in DOMAIN tasks[i].variations : MkdirpExampleDone(i, k)
    \/ \E i \in DOMAIN tasks : \E k \in DOMAIN tasks[i].variations : ReadTemplateDone(i, k)
    \/ \E i \in DOMAIN tasks : \E k \in DOMAIN tasks[i].variations : WriteHtmlDone(i, k)
    \/ RimrafDone

SpecBuild == InitBuild /\ [][NextBuild]_vars

(* deploy() under every way of giving the access token, the environment changing *)

EnvToken == Str("f00dfeed")
SyncEnvs == {Undefined, EnvToken}
SyncConfigs ==
    LET base == BaseConfig(AtomsMapping)
        tokens == {base, With(base, "frontifyOptions", Obj(EmptyObject)),
                   With(base, "frontifyOptions", Obj([access_token |-> Token]))} IN
    tokens \cup {With(given, "assetFolder", Str("/fixtures")) : given \in tokens}
SyncCatalogs == {<<Button>>}

InitSync == InitWith(SyncConfigs, SyncEnvs, SyncCatalogs)

NextSync ==
    \/ CallDeploy
    \/ EnvChange(SyncEnvs)
    \/ GetComponentsForValidate
    \/ GetComponentsForBuild
    \/ \E i \in DOMAIN tasks : ExamplesResolved(i)
    \/ \E i \in DOMAIN tasks : MkdirpComponentDone(i)
    \/ \E i \in DOMAIN tasks : WritePatternJsonDone(i)
    \/ \E i \in DOMAIN tasks : \E k \in DOMAIN tasks[i].variations : MkdirpExampleDone(i, k)
    \/ \E i \in DOMAIN tasks : \E k \in DOMAIN tasks[i].variations : ReadTemplateDone(i, k)
    \/ \E i \in DOMAIN tasks : \E k \in DOMAIN tasks[i].variations : WriteHtmlDone(i, k)
    \/ \E ok \in BOOLEAN : SyncAssetsDone(ok)
    \/ \E ok \in BOOLEAN : SyncPatternsDone(ok)

SpecSync == InitSync /\ [][NextSync]_vars

(* the constructor under well-formed and malformed configurations *)

Without(object, key) == [k \in DOMAIN object \ {key} |-> object[k]]
ConstructConfigs ==
    LET base == BaseConfig(AtomsMapping) IN
    { base,
      Without(base, "rootDirectory"), With(base, "rootDirectory", << <<"nowhere">> >>),
      Without(base, "targetDir"),
      Without(base, "mapping"), With(base, "mapping", Str("atoms")), With(base, "mapping", Null),
      Without(base, "compiler"), With(base, "compiler", Str("handlebars")) }
ConstructCatalogs == {<<Button>>, <<Hero, Button>>}

InitConstruct == InitWith(ConstructConfigs, {Undefined}, ConstructCatalogs)

NextConstruct ==
    \/ CallValidateComponents
    \/ CallBuildComponents
    \/ GetComponentsForValidate
    \/ GetComponentsForBuild
    \/ \E i \in DOMAIN tasks : ExamplesResolved(i)
    \/ \E i \in DOMAIN tasks : MkdirpComponentDone(i)
    \/ \E i \in DOMAIN tasks : WritePatternJsonDone(i)
    \/ \E i \in DOMAIN tasks : \E k \in DOMAIN tasks[i].variations : MkdirpExampleDone(i, k)
    \/ \E i \in DOMAIN tasks : \E k \in DOMAIN tasks[i].variations : ReadTemplateDone(i, k)
    \/ \E i \in DOMAIN tasks : \E k \in DOMAIN tasks[i].variations : WriteHtmlDone(i, k)

SpecConstruct == InitConstruct /\ [][NextConstruct]_vars

----------------------------------------------------------------------------
(* Properties of the deployment orchestrator *)

BuildStarted == call.build.st # "none" \/ call.spawned \/ written # {}
SyncStarted == call.assets.st # "none" \/ call.patterns.st # "none" \/ registryLog # <<>>

\* C1: deploy() runs validate, build, sync in this order and a failed stage
\* aborts the later ones: the build stage starts and writes below targetDir
\* only after validateComponents() of this deploy() resolved, the registry
\* client is called only after validateComponents() and buildComponents() of
\* this deploy() both resolved, and a rejected stage is the outcome of deploy().
C1_StagesInOrder ==
    call.op = "deploy" =>
        /\ BuildStarted => call.validate.st = "resolved"
        /\ SyncStarted => call.validate.st = "resolved" /\ call.build.st = "resolved"
        /\ call.validate.st = "rejected" => ~BuildStarted /\ ~SyncStarted /\ call.result = call.validate
        /\ call.build.st = "rejected" => ~SyncStarted /\ call.result = call.build
        /\ call.result.st = "resolved" => call.assets.st = "resolved" /\ call.patterns.st = "resolved"

\* a deploy() that went through all three stages
C1_Witness ==
    /\ call.op = "deploy" /\ call.result.st = "resolved"
    /\ written # {} /\ registryLog # <<>>

\* a deploy() stopped by its validation
C1_WitnessAborted ==
    call.op = "deploy" /\ call.validate.st = "rejected" /\ call.answer # <<>>

----------------------------------------------------------------------------
(* Properties of the component validator *)

ViolatesSchema(component) == SchemaErrors(component.data) # <<>>
\* the folder two levels above the metadata file
TypeFolder(component) == SegStr(component.metaFile[Len(component.metaFile) - 2])
HasMappingEntry(component) == TypeFolder(component) \in DOMAIN options.mapping
Passes(component) == ~ViolatesSchema(component) /\ HasMappingEntry(component)
ValidationSettled == Settled(call.validate)
\* the first i - 1 components of the catalog's answer pass both checks
EarlierPass(i) == \A j \in 1..(i - 1) : Passes(call.answer[j])

SchemaMessage(component) ==
    "Schema \"nitro-frontify-deployer-input-schema\" can't be applied for \""
        \o PathStr(component.metaFile)
        \o "\" because data.stability should be equal to one of the allowed values"
FolderMessage(folder) == "Folder name \"" \o folder \o "\" is not in the mapping."

\* C2: validateComponents() resolves to true if and only if the catalog is
\* non-empty and every component passes the schema validation and the
\* folder-to-type mapping check; it resolves to nothing but true.
C2_TrueIffAllPass ==
    ValidationSettled =>
        /\ call.validate.st = "resolved" <=>
              (call.answer # <<>> /\ \A i \in 1..Len(call.answer) : Passes(call.answer[i]))
        /\ call.validate.st = "resolved" => call.validate.val = Bool(TRUE)

C2_Witness ==
    /\ ValidationSettled /\ call.validate = Resolved(Bool(TRUE))
    /\ Len(call.answer) = 2

\* C3: when the catalog answers zero components, validateComponents() rejects
\* with exactly "Component validation failed - no components found" and hands
\* no component to the validator.
C3_EmptyCatalog ==
    ValidationSettled /\ call.answer = <<>> =>
        /\ call.validate = Rejected(Error("Component validation failed - no components found"))
        /\ validatorLog = <<>>

C3_Witness == ValidationSettled /\ call.answer = <<>> /\ call.validate.st = "rejected"

----------------------------------------------------------------------------
(* Properties of the example builder *)

BuildCall == call.op \in {"buildComponents", "deploy"} /\ call.spawned
CompilerThrows(content) == "throw" \in DOMAIN compiler(content, <<>>)
MainExamples(component) ==
    {component.examples[n] : n \in {m \in 1..Len(component.examples) : component.examples[m].main}}
\* the error the compiler threw for the example, its message prefixed with
\* the absolute path of the template in quotes
RewrittenError(example) == Error("\"" \o PathStr(example.filepath) \o "\" Compile error")
HtmlOf(component, example) ==
    resolve(TargetDir,
            relative(RootDirectory, component.directory)
                \o << <<basename(example.filepath)[1], "html">> >>)
\* the template of the example went through the compiler in the build of component i
Compiled(i, example) ==
    LET key == relative(tasks[i].component.directory, example.filepath) IN
    /\ tasks[i].pc = "variations"
    /\ key \in DOMAIN tasks[i].variations
    /\ tasks[i].variations[key] \in {"write", "done", "failed"}
\* the examples for which the compiler threw in the builds of the call so far
Thrown(i) ==
    {example \in MainExamples(tasks[i].component) :
        Compiled(i, example) /\ CompilerThrows(example.content)}

C6_WitnessTwo ==
    /\ BuildCall
    /\ Cardinality(UNION {Thrown(j) : j \in DOMAIN tasks}) = 2

\* the build of component i of the call has written pattern.json, which is there
PatternJsonWritten(i) ==
    /\ BuildCall
    /\ tasks[i].pc = "variations"
    /\ _buildComponent_patternJson(tasks[i]).file \in DOMAIN fs.files
PatternJsonOf(component) ==
    resolve(TargetDir, relative(RootDirectory, component.directory) \o <<PatternJson>>)
TransferDataOf(component) == _generateComponentTransferData(component, component.examples)
RoundTrip(i) ==
    JSONParse(fs.files[PatternJsonOf(tasks[i].component)].json) = TransferDataOf(tasks[i].component)
HasType(component) == Truthy(Lookup(component.data, "type")) \/ HasMappingEntry(component)

\* C7 as stated: for every component, validated or not, the pattern.json
\* written by _buildComponent parses back to the transfer data that
\* _generateComponentTransferData computes for it, with the same keys and values.
C7_RoundTrip ==
    \A i \in DOMAIN tasks : PatternJsonWritten(i) => RoundTrip(i)

\* C7 amended: the round trip holds for every component that declares its
\* type or whose type folder has an entry in the mapping (so for every
\* validated component); for any other component the transfer data has a
\* type key with the value undefined, which pattern.json does not have.
C7_RoundTripTyped ==
    \A i \in DOMAIN tasks :
        PatternJsonWritten(i) =>
            IF HasType(tasks[i].component) THEN RoundTrip(i)
            ELSE /\ TransferDataOf(tasks[i].component)["type"] = Undefined
                 /\ "type" \notin DOMAIN JSONParse(fs.files[PatternJsonOf(tasks[i].component)].json)

\* pattern.json of a component in an unmapped folder that declares its type
C7_Witness ==
    \E i \in DOMAIN tasks :
        /\ PatternJsonWritten(i)
        /\ ~HasMappingEntry(tasks[i].component) /\ HasType(tasks[i].component)
        /\ DOMAIN tasks[i].variations # {}

----------------------------------------------------------------------------
(* Properties of clean() *)

\* C8 as stated: after buildComponents()/deploy() calls that settled, resolved
\* or rejected, no built file exists under targetDir once clean() resolved,
\* and clean() never fails, also not on an absent directory.
C8_CleanComplete ==
    call.op = "clean" /\ Settled(call.result) =>
        call.result.st = "resolved" /\ DOMAIN fs.files = {}

\* C8 amended: clean() never fails, also not on an absent directory, and
\* when no component build of an earlier buildComponents()/deploy() was still
\* running as clean() was called, nothing exists under targetDir once it resolved.
C8_CleanAfterBuildsFinished ==
    call.op = "clean" /\ Settled(call.result) =>
        /\ call.result.st = "resolved"
        /\ call.quiet => fs = EmptyFs

\* clean() resolved and removed the pattern.json files of an earlier build
C8_Witness ==
    /\ call.op = "clean" /\ call.result.st = "resolved"
    /\ call.quiet /\ call.before # {} /\ fs = EmptyFs

\* clean() resolved on an absent target directory
C8_WitnessAbsent ==
    call.op = "clean" /\ call.result.st = "resolved" /\ call.absent

----------------------------------------------------------------------------
(* Properties of the sync stage *)

HasToken == Truthy(Lookup(options.frontifyOptions, "access_token"))
AssetCalls == SelectSeq(registryLog, LAMBDA request : request.fn = "syncAssets")
\* the sync stage of deploy() ran: the build resolved and a token is there
SyncRan == call.op = "deploy" /\ call.build.st = "resolved" /\ HasToken

\* C9: without an asset folder the asset sync of deploy() yields an empty
\* list and syncAssets is never called; with an asset folder the sync stage
\* calls syncAssets exactly once, with that folder as cwd and the configured filters.
C9_AssetSync ==
    call.op = "deploy" =>
        IF options.assetFolder = Str("")
        THEN /\ AssetCalls = <<>>
             /\ SyncRan => call.assets = Resolved(List(<<>>))
             /\ call.result.st = "resolved" => call.result.val.assets = List(<<>>)
        ELSE /\ Len(AssetCalls) <= 1
             /\ SyncRan =>
                   /\ Len(AssetCalls) = 1
                   /\ AssetCalls[1].config["cwd"] = options.assetFolder
                   /\ AssetCalls[1].patterns = options.assetFilter

C9_Witness ==
    /\ call.op = "deploy" /\ call.result.st = "resolved"
    /\ options.assetFolder = Str("/fixtures")
    /\ Len(AssetCalls) = 1

C9_WitnessUnset ==
    /\ call.op = "deploy" /\ call.result.st = "resolved"
    /\ options.assetFolder = Str("")

DeployedWithoutAssets ==
    call.op = "deploy" /\ call.result.st = "resolved" /\ options.assetFolder = Str("")
BuiltPatternFiles == {PatternJsonOf(call.components[i]) : i \in 1..Len(call.components)}

----------------------------------------------------------------------------
(* Properties of the access token *)

\* the token given in the sync options of the configuration
ExplicitToken ==
    LET declared == Lookup(config, "frontifyOptions") IN
    IF Truthy(declared) THEN Lookup(declared.obj, "access_token") ELSE Undefined
NoTokenAvailable == ~Truthy(ExplicitToken) /\ ~Truthy(env.constructed)

\* C11: without a token in the sync options and without one in the
\* environment at construction, deploy() never resolves, calls neither
\* syncAssets nor syncPatterns, and rejects with the configuration error
\* once its build stage has resolved, with or without an asset folder.
C11_MissingToken ==
    call.op = "deploy" /\ NoTokenAvailable =>
        /\ registryLog = <<>>
        /\ call.result.st # "resolved"
        /\ call.build.st = "resolved" => call.result = Rejected(AssertionError(TokenMessage))

\* a deploy() without token and without asset folder, rejected at the sync stage
C11_Witness ==
    /\ call.op = "deploy" /\ NoTokenAvailable
    /\ "assetFolder" \notin DOMAIN config
    /\ call.build.st = "resolved"
    /\ call.result = Rejected(AssertionError(TokenMessage))

C11_WitnessAssets ==
    /\ call.op = "deploy" /\ NoTokenAvailable
    /\ "assetFolder" \in DOMAIN config
    /\ call.build.st = "resolved"
    /\ call.result = Rejected(AssertionError(TokenMessage))

ExpectedToken == IF Truthy(ExplicitToken) THEN ExplicitToken ELSE env.constructed
PatternCalls == SelectSeq(registryLog, LAMBDA request : request.fn = "syncPatterns")

\* C12: every sync call of deploy() carries the token of the sync options
\* when one is given, and otherwise the value the environment variable had
\* as the deployer was constructed, whatever the variable holds by now;
\* with such a token the sync stage makes the pattern call, and the asset
\* call when an asset folder is configured.
C12_TokenResolution ==
    call.op = "deploy" =>
        /\ \A n \in 1..Len(registryLog) : registryLog[n].config["access_token"] = ExpectedToken
        /\ call.build.st = "resolved" /\ Truthy(ExpectedToken) =>
              /\ Len(PatternCalls) = 1
              /\ "assetFolder" \in DOMAIN config => Len(AssetCalls) = 1

\* a deploy() resolved with the token of the environment at construction,
\* the variable unset since
C12_Witness ==
    /\ call.op = "deploy" /\ call.result.st = "resolved"
    /\ ~Truthy(ExplicitToken)
    /\ env.constructed = EnvToken /\ env.now = Undefined
    /\ Len(registryLog) = 2

\* a deploy() resolved with the token of the sync options, another one in the environment
C12_WitnessExplicit ==
    /\ call.op = "deploy" /\ call.result.st = "resolved"
    /\ ExplicitToken = Token /\ env.constructed = EnvToken
    /\ Len(registryLog) = 2

----------------------------------------------------------------------------
(* Properties of the transfer data generator *)

\* the build of component i of the call has its transfer data
Generated(i) == BuildCall /\ tasks[i].pc # "examples"
VariationsOf(i) == tasks[i].transferData["variations"].obj
KeyOf(component, example) == relative(component.directory, example.filepath)
ExamplesOf(component) == Range(component.examples)

\* C13 as stated: the variations have exactly one entry per example whose
\* main flag is true or which, in the legacy form, is not hidden, and none
\* for any other example; the key of an entry is the path of the example
\* relative to the component directory.
C13_QualifyingExamples ==
    \A i \in DOMAIN tasks :
        Generated(i) =>
            LET qualifying == {example \in ExamplesOf(tasks[i].component) :
                                  example.main \/ ~example.hidden} IN
            /\ DOMAIN VariationsOf(i) = {KeyOf(tasks[i].component, example) : example \in qualifying}
            /\ Cardinality(DOMAIN VariationsOf(i)) = Cardinality(qualifying)

\* C13 amended: the variations have exactly one entry per example whose main
\* flag is true, and none for any other example, hidden or not: an example
\* of the legacy form, not hidden and without main flag, has no entry; the
\* key of an entry is the path of the example relative to the component directory.
C13_MainExamples ==
    \A i \in DOMAIN tasks :
        Generated(i) =>
            LET qualifying == {example \in ExamplesOf(tasks[i].component) : example.main} IN
            /\ DOMAIN VariationsOf(i) = {KeyOf(tasks[i].component, example) : example \in qualifying}
            /\ Cardinality(DOMAIN VariationsOf(i)) = Cardinality(qualifying)

\* transfer data of a component with main and other examples, hidden and not
C13_Witness ==
    \E i \in DOMAIN tasks :
        /\ Generated(i)
        /\ \E a, b, c, d \in ExamplesOf(tasks[i].component) :
              /\ a.main /\ ~a.hidden /\ b.main /\ b.hidden
              /\ ~c.main /\ ~c.hidden /\ ~d.main /\ d.hidden
        /\ Cardinality(DOMAIN VariationsOf(i)) = 2

FolderName(component) == SegStr(basename(component.directory))
FolderType(component) == SegStr(basename(dirname(component.directory)))
DefaultName(component) ==
    IF "name" \in DOMAIN component.data THEN component.data["name"].str ELSE FolderName(component)
\* the name processor of the configurations, applied to its four arguments
Describe(name, folderName, folderType, componentPath) ==
    name \o " - " \o folderName \o " - " \o folderType \o " - " \o PathStr(componentPath)

ConfiguredProcessor ==
    IF "componentNameProcessor" \in DOMAIN config THEN config["componentNameProcessor"] ELSE "none"

\* C14: the name of the transfer data of a component is the configured name
\* processor applied to (defaultName, folderName, folderType, absolute
\* component path), defaultName being the declared name when there is one and
\* the folder name otherwise; without name processor it is defaultName.
C14_ComponentName ==
    \A i \in DOMAIN tasks :
        Generated(i) =>
            LET component == tasks[i].component IN
            tasks[i].transferData["name"] =
                Str(IF ConfiguredProcessor = "describe"
                    THEN Describe(DefaultName(component), FolderName(component),
                                  FolderType(component), component.directory)
                    ELSE DefaultName(component))

\* the name processor applied to the declared name of a component
C14_Witness ==
    \E i \in DOMAIN tasks :
        /\ Generated(i)
        /\ "name" \in DOMAIN tasks[i].component.data
        /\ ConfiguredProcessor = "describe"
        /\ tasks[i].transferData["name"] =
              Str("Hero Unit - hero - helpers - /components/helpers/hero")

C14_WitnessDefault ==
    \E i \in DOMAIN tasks :
        /\ Generated(i)
        /\ "componentNameProcessor" \notin DOMAIN config
        /\ tasks[i].transferData["name"] = Str("button")

\* path.basename(file, path.extname(file)): the file name without its extension
Stem(example) ==
    LET file == basename(example.filepath) IN
    IF Len(file) >= 2 THEN SegStr(SubSeq(file, 1, Len(file) - 1)) ELSE SegStr(file)
VariationAsStated(i, example) ==
    [ name |-> tasks[i].transferData["name"].str \o " -- " \o Stem(example),
      html |-> << PathStr(relative(RootDirectory, tasks[i].component.directory))
                     \o "/" \o Stem(example) \o ".html" >> ]
VariationMade(i, example) ==
    LET variation == VariationsOf(i)[KeyOf(tasks[i].component, example)] IN
    [ name |-> variation.name,
      html |-> [n \in 1..Len(variation.assets.html) |-> PathStr(variation.assets.html[n])] ]

\* C15 as stated: every variation made for an example has the name
\* '<resolved component name> -- <stem>', the stem being the file name of
\* the example without its extension, and exactly one html asset,
\* '<component path relative to the root directory>/<stem>.html'.
C15_Variation ==
    \A i \in DOMAIN tasks :
        Generated(i) =>
            \A example \in MainExamples(tasks[i].component) :
                VariationMade(i, example) = VariationAsStated(i, example)

\* the same for the examples whose file name has one dot only
C15_VariationOneDot ==
    \A i \in DOMAIN tasks :
        Generated(i) =>
            \A example \in MainExamples(tasks[i].component) :
                Len(basename(example.filepath)) = 2 =>
                    VariationMade(i, example) = VariationAsStated(i, example)

----------------------------------------------------------------------------
(* Properties of the constructor *)

Untouched ==
    /\ fs.files = EmptyFiles /\ written = {} /\ tasks = <<>>
    /\ validatorLog = <<>> /\ registryLog = <<>>
\* the mapping of the configuration is a folder -> type table
UsableMapping ==
    /\ "mapping" \in DOMAIN config
    /\ typeof(config["mapping"]) = "object" /\ config["mapping"] # Null
Malformed ==
    \/ "rootDirectory" \notin DOMAIN config
    \/ config["rootDirectory"] \notin ExistingDirectories
    \/ "targetDir" \notin DOMAIN config
    \/ ~UsableMapping
    \/ "compiler" \notin DOMAIN config
    \/ typeof(config["compiler"]) # "function"
FailsOnSetting == call.result.st = "rejected" /\ call.result.val.error.name = "TypeError"

\* C16 as stated: the constructor raises, before any catalog, file system
\* or registry operation, when the root directory is missing or does not
\* exist, the target directory is missing, the mapping is not a usable
\* folder -> type table (null included) or the compiler is not a function;
\* a deployer that was constructed never fails later over one of these settings.
C16_ConfigurationErrors ==
    /\ Malformed =>
          /\ ~Constructed /\ Untouched
          /\ call.op = "constructor" /\ call.result.st = "rejected"
          /\ call.result.val.error.name = "AssertionError"
    /\ Constructed => ~FailsOnSetting

\* the same with a null mapping taken for well-formed: what the assertions cover
C16_AssertedSettings ==
    Malformed /\ Lookup(config, "mapping") # Null =>
        /\ ~Constructed /\ Untouched
        /\ call.op = "constructor" /\ call.result.st = "rejected"
        /\ call.result.val.error.name = "AssertionError"

\* a deployer constructed with a null mapping, its validateComponents() rejected
C16_NullMappingFails ==
    /\ Lookup(config, "mapping") = Null /\ Constructed
    /\ call.op = "validateComponents" /\ FailsOnSetting

----------------------------------------------------------------------------
(* Properties of buildComponents() *)

CoreAssetsDir == resolve(TargetDir, << <<"core">>, <<"assets">> >>)
BuildResolved == BuildCall /\ call.build.st = "resolved"
\* the files the build of a component makes
OutputsOf(component) ==
    {PatternJsonOf(component)} \cup {HtmlOf(component, example) : example \in MainExamples(component)}
UnderCoreAssets == {p \in fs.dirs \cup DOMAIN fs.files : IsPrefix(CoreAssetsDir, p)}

\* C17 as stated: when a build of all components resolves,
\* <targetDir>/core/assets/pattern.json exists with the name 'core-assets'
\* and the folders css and js are there for the shared files.
C17_CoreAssets ==
    BuildResolved =>
        LET file == resolve(CoreAssetsDir, <<PatternJson>>) IN
        /\ file \in DOMAIN fs.files
        /\ JSONParse(fs.files[file].json)["name"] = Str("core-assets")
        /\ resolve(CoreAssetsDir, << <<"css">> >>) \in fs.dirs
        /\ resolve(CoreAssetsDir, << <<"js">> >>) \in fs.dirs

\* C17 amended: a build of all components makes no core-assets package:
\* it writes the pattern.json and the HTML files of the components of the
\* catalog and nothing else, all of them by the time it resolves, and
\* nothing exists under <targetDir>/core/assets.
C17_ComponentsOnly ==
    BuildCall =>
        /\ written \subseteq UNION {OutputsOf(call.components[n]) : n \in 1..Len(call.components)}
        /\ UnderCoreAssets = {}
        /\ BuildResolved =>
              written = UNION {OutputsOf(call.components[n]) : n \in 1..Len(call.components)}

\* the build stage of a deploy() of two components resolved
C17_Witness ==
    /\ call.op = "deploy" /\ BuildResolved
    /\ Len(call.components) = 2
    /\ Cardinality(written) >= 4


AllWritten ==
    /\ Len(tasks) = Len(call.components)
    /\ \A i \in DOMAIN tasks :
          /\ tasks[i].promise.st = "resolved"
          /\ OutputsOf(tasks[i].component) \subseteq written
          /\ OutputsOf(tasks[i].component) \subseteq DOMAIN fs.files
\* buildComponents() rejects in this step, with the rejection of a component
\* build of this step, none having rejected before
FirstRejection ==
    /\ \A j \in DOMAIN tasks : tasks[j].promise.st # "rejected"
    /\ \E i \in DOMAIN tasks :
          tasks[i].promise.st = "pending" /\ tasks'[i].promise = call'.build

\* C18: buildComponents() resolves only after the pattern.json and the HTML
\* file of every variation of every component of the catalog are written,
\* under any interleaving of the component builds, and it rejects with the
\* first rejection of a component build.
C18_WaitAllJoin ==
    /\ [](BuildResolved => AllWritten)
    /\ [][BuildCall /\ call.build.st = "pending" /\ call'.build.st = "rejected"
              => FirstRejection]_vars

\* buildComponents() resolved over two components with three variations
C18_Witness ==
    /\ call.op = "buildComponents" /\ BuildResolved
    /\ Len(call.components) = 2
    /\ Cardinality(written) = 5

\* buildComponents() rejected while the build of another component had resolved
C18_WitnessRejected ==
    /\ BuildCall /\ call.build.st = "rejected"
    /\ \E i, j \in DOMAIN tasks :
          tasks[i].promise = call.build /\ tasks[j].promise.st = "resolved"


\* a step of the invocation whose build stage has rejected
AfterRejection == BuildCall /\ call.build.st = "rejected" /\ invocations' = invocations
\* the step is one of a component build that was running already
StragglerStep ==
    \E i \in DOMAIN tasks :
        /\ Live(tasks[i]) /\ tasks'[i] # tasks[i]
        /\ \A j \in DOMAIN tasks \ {i} : tasks'[j] = tasks[j]

\* C19 as stated: once buildComponents(), or deploy() in its build stage,
\* has rejected, the invocation creates no directory and writes no
\* pattern.json or HTML file under targetDir any more.
C19_FirstErrorAborts == [][AfterRejection => fs' = fs]_vars

\* C19 amended: once the build stage has rejected, the rejection is final
\* and no further component build is started, but the builds already running
\* are not aborted: the directories and files that appear under targetDir
\* afterwards are made by the remaining steps of these builds.
C19_RunningBuildsGoOn ==
    [][AfterRejection =>
          /\ call' = call
          /\ DOMAIN tasks' = DOMAIN tasks
          /\ fs' # fs => StragglerStep]_vars

\* the build stage has rejected while another component build is running
C19_Witness ==
    /\ BuildCall /\ call.build.st = "rejected"
    /\ \E i \in DOMAIN tasks : Live(tasks[i]) /\ tasks[i].pc \in {"mkdirp", "writeJson"}

----------------------------------------------------------------------------
(* Properties of the build of one component *)

\* the step makes an HTML file of the component under targetDir
WritesHtml(component) ==
    \E example \in MainExamples(component) :
        /\ HtmlOf(component, example) \in DOMAIN fs'.files
        /\ HtmlOf(component, example) \notin DOMAIN fs.files
\* the step completes the write of the pattern.json of component i
CompletesPatternJson(i) ==
    /\ tasks[i].pc = "writeJson"
    /\ PatternJsonOf(tasks[i].component) \in DOMAIN fs'.files
    /\ fs'.files[PatternJsonOf(tasks[i].component)] = [json |-> JSONStringify(tasks[i].transferData)]

\* C20: in the build of a component no variation is there to be read,
\* compiled or written before the write of pattern.json has completed: the
\* variations start in the step that completes it, HTML is written only
\* afterwards, and when the write fails the build is over without any variation.
C20_PatternJsonFirst ==
    /\ [](\A i \in DOMAIN tasks : tasks[i].variations # EmptyObject => tasks[i].pc = "variations")
    /\ [][\A i \in DOMAIN tasks \cap DOMAIN tasks' :
             /\ tasks[i].pc # "variations" /\ tasks'[i].pc = "variations" => CompletesPatternJson(i)
             /\ tasks'[i] # tasks[i] /\ WritesHtml(tasks[i].component) => tasks[i].pc = "variations"
             /\ tasks[i].pc = "failed" => tasks'[i] = tasks[i]]_vars

\* a template of a component is about to be read, its pattern.json written
C20_Witness ==
    \E i \in DOMAIN tasks :
        /\ BuildCall /\ tasks[i].pc = "variations"
        /\ \E k \in DOMAIN tasks[i].variations : tasks[i].variations[k] = "read"
        /\ PatternJsonOf(tasks[i].component) \in written

\* the write of pattern.json failed: the directory was removed under it
C20_WitnessWriteFailed ==
    \E i \in DOMAIN tasks :
        tasks[i].pc = "failed" /\ tasks[i].promise.st = "rejected" /\ tasks[i].variations = EmptyObject

----------------------------------------------------------------------------
(* Properties of the sync stage: the join *)

\* C21: in the sync stage of deploy() the asset sync and the pattern sync
\* are started together, neither waiting for the other, and joined:
\* deploy() resolves, with {assets: <asset sync result>, components:
\* <pattern sync result>}, only after both have resolved, whichever
\* finishes first, and it rejects if one of the two rejects.
C21_SyncJoin ==
    SyncRan =>
        /\ call.assets.st # "none" /\ call.patterns.st # "none"
        /\ Len(PatternCalls) = 1
        /\ options.assetFolder # Str("") => Len(AssetCalls) = 1
        /\ call.result.st = "resolved" <=>
              call.assets.st = "resolved" /\ call.patterns.st = "resolved"
        /\ call.result.st = "resolved" =>
              call.result.val = [assets |-> call.assets.val, components |-> call.patterns.val]
        /\ call.result.st = "rejected" <=>
              call.assets.st = "rejected" \/ call.patterns.st = "rejected"
        /\ call.result.st = "rejected" => call.result \in {call.assets, call.patterns}

\* the pattern sync has resolved while the asset sync is running: deploy() waits
C21_Witness ==
    /\ SyncRan
    /\ call.patterns.st = "resolved" /\ call.assets.st = "pending"
    /\ call.result.st = "pending"

\* the asset sync has resolved first
C21_WitnessAssetsFirst ==
    /\ SyncRan /\ options.assetFolder # Str("")
    /\ call.assets.st = "resolved" /\ call.patterns.st = "pending"
    /\ call.result.st = "pending"

\* deploy() rejected by the asset sync, the pattern sync still running
C21_WitnessRejected ==
    /\ SyncRan
    /\ call.assets.st = "rejected" /\ call.patterns.st = "pending"
    /\ call.result = call.assets

----------------------------------------------------------------------------
(* Properties of the component validator: the order *)

Failing == {i \in 1..Len(call.answer) : ~Passes(call.answer[i])}
FirstFailing == CHOOSE i \in Failing : \A j \in Failing : i <= j
\* the error of a component that fails: the schema error when it has one
ErrorOf(component) ==
    IF ViolatesSchema(component) THEN Error(SchemaMessage(component))
    ELSE Error(FolderMessage(TypeFolder(component)))

\* C22: the components are validated one after the other in the order of
\* the catalog, none after the first that fails; validateComponents()
\* rejects with the error of that first component, which is the schema
\* error when the component violates the schema and lies in an unmapped folder.
C22_NonContinuing ==
    ValidationSettled =>
        IF Failing = {}
        THEN validatorLog = call.answer
        ELSE /\ validatorLog = SubSeq(call.answer, 1, FirstFailing)
             /\ call.validate = Rejected(ErrorOf(call.answer[FirstFailing]))

\* the first of two components violates the schema in an unmapped folder:
\* the second is not validated
C22_Witness ==
    /\ ValidationSettled /\ Len(call.answer) = 2
    /\ ViolatesSchema(call.answer[1]) /\ ~HasMappingEntry(call.answer[1])
    /\ ~Passes(call.answer[2])
    /\ Len(validatorLog) = 1
    /\ call.validate = Rejected(Error(SchemaMessage(call.answer[1])))

----------------------------------------------------------------------------
(* Properties of the rendered files *)

Rendering(content) == prettyPrint(compiler(content, <<>>).ret)
\* the HTML files under the target directory of the component
HtmlFilesOf(component) ==
    {file \in DOMAIN fs.files :
        /\ IsPrefix(resolve(TargetDir, relative(RootDirectory, component.directory)), file)
        /\ "html" \in DOMAIN fs.files[file]}
Built(i) == BuildCall /\ tasks[i].promise.st = "resolved"
OwnRenderings(i) ==
    /\ \A k1, k2 \in DOMAIN tasks[i].variations :
          k1 # k2 => VariationDest(tasks[i], k1) # VariationDest(tasks[i], k2)
    /\ \A k \in DOMAIN tasks[i].variations :
          /\ VariationDest(tasks[i], k) \in DOMAIN fs.files
          /\ fs.files[VariationDest(tasks[i], k)] = [html |-> Rendering(VariationContent(tasks[i], k))]
    /\ Cardinality(HtmlFilesOf(tasks[i].component)) = Cardinality(MainExamples(tasks[i].component))

\* C23 as stated: after the build of a component has succeeded there is one
\* HTML file per main example: distinct variations have distinct destination
\* paths, and each file holds the rendering of the template of its own
\* variation, also for examples that share a file stem.
C23_OneFilePerVariation ==
    \A i \in DOMAIN tasks : Built(i) => OwnRenderings(i)

\* the same for the components whose main examples differ in the part of
\* their file name before its first dot
C23_DistinctFirstParts ==
    \A i \in DOMAIN tasks :
        Built(i) /\ (\A a, b \in MainExamples(tasks[i].component) :
                        a # b => basename(a.filepath)[1] # basename(b.filepath)[1])
            => OwnRenderings(i)

\* a component built with two main examples written to one file
C23_SharedFile ==
    \E i \in DOMAIN tasks :
        /\ Built(i)
        /\ Cardinality(MainExamples(tasks[i].component)) = 2
        /\ Cardinality(HtmlFilesOf(tasks[i].component)) = 1

----------------------------------------------------------------------------
(* Properties of deploy(): validation and build over one catalog *)

\* the components of which the build stage of the call has written a file
WrittenComponents ==
    {tasks[i].component : i \in {j \in DOMAIN tasks : OutputsOf(tasks[j].component) \cap written # {}}}
\* the components the validation stage of the call has validated with success
ValidatedComponents ==
    IF call.validate.st = "resolved" THEN Range(validatorLog) ELSE {}

\* C24 as stated: within one deploy() every component of which the build
\* stage writes pattern.json or HTML has been validated with success by the
\* validation stage of that deploy(), also when the catalog answers the two
\* stages differently.
C24_BuiltAreValidated ==
    call.op = "deploy" => WrittenComponents \subseteq ValidatedComponents

\* the same for a deploy() whose two stages got the same answer of the catalog
C24_SameAnswer ==
    call.op = "deploy" /\ call.spawned /\ call.components = call.answer =>
        WrittenComponents \subseteq ValidatedComponents

\* a deploy() that has written a component in an unmapped folder, which its
\* validation stage never saw
C24_UnvalidatedBuilt ==
    /\ call.op = "deploy"
    /\ \E component \in WrittenComponents :
          component \notin ValidatedComponents /\ ~HasMappingEntry(component)

====
